---- MODULE Spec2Model ----
(***************************************************************************)
(* Batched point-cloud primitives of operations.py: index-based gather     *)
(* with its scatter-add gradient, furthest-point sampling, and KNN         *)
(* grouping through a Faiss flat L2 index.                                 *)
(*                                                                         *)
(* Tensors are functions over 0-based index ranges, as in the source.      *)
(* Coordinates are small integers, so squared Euclidean distances are      *)
(* exact.                                                                  *)
(***************************************************************************)
EXTENDS Integers, Sequences, FiniteSets, TLC

VARIABLES
    \* ---- GatherFunction (forward / backward) ----
    features,       \* (B, C, N) tensor given to GatherFunction.forward
    idx,            \* (B, npoint) index tensor given to GatherFunction.forward
    grad_out,       \* (B, C, npoint) tensor given to GatherFunction.backward
    output,         \* what forward returned
    ctx,            \* what forward saved for backward: idx, C, N
    grad_features,  \* the buffer backward accumulates into and returns
    pending,        \* (b, j) output positions whose worker has not accumulated yet
    gpc,            \* position of the gather call sequence
    \* ---- furthest_point_sample ----
    xyz,            \* the point tensor as the caller passes it: (B, 3, N) or (B, N, 3)
    NCHW,           \* the caller's layout flag
    npoint,         \* number of points asked for
    fps_idx,        \* (B, npoint) indices returned by furthest_point_sample
    sampled_pc,     \* the point sets returned with them
    npoint2,        \* target of a second call on the same xyz (0: none made)
    fps_idx2,       \* indices returned by that second call
    fpc,            \* position of the sampling call sequence
    \* ---- group_knn / KNN.forward / search_index_pytorch ----
    entry,          \* the function the caller calls: "group_knn" or "KNN"
    k,              \* neighbourhood size asked for
    query,          \* the caller's query tensor
    points,         \* the caller's point tensor
    unique,         \* group_knn's unique flag
    nchw,           \* group_knn's NCHW flag
    contiguous,     \* whether the caller's query tensor is contiguous
    query_trans,    \* query as KNN.forward receives it, (B, M, C)
    points_trans,   \* points as KNN.forward receives it, (B, N, C)
    bi,             \* KNN.forward's loop counter i
    index,          \* the Faiss index of the running search_index_pytorch call
    D_var,          \* D of the running search_index_pytorch call, (M, k)
    I_var,          \* I of the running search_index_pytorch call, (M, k)
    distance_list,  \* KNN.forward's list distance_batch before stacking
    index_list,     \* KNN.forward's list index_batch before stacking
    distance_batch, \* stacked distances (B, M, k)
    index_batch,    \* stacked indices (B, M, k)
    neighbor_points,\* group_knn's gathered neighbours
    raised,         \* the exception the call died on, "" if none
    kpc             \* position of the call

gvars == <<features, idx, grad_out, output, ctx, grad_features, pending, gpc>>
fvars == <<xyz, NCHW, npoint, fps_idx, sampled_pc, npoint2, fps_idx2, fpc>>

kvars == <<entry, k, query, points, unique, nchw, contiguous, query_trans,
           points_trans, bi, index, D_var, I_var, distance_list, index_list,
           distance_batch, index_batch, neighbor_points, raised, kpc>>

vars == <<gvars, fvars, kvars>>

Range(n) == 0 .. (n - 1)

\* ------------------------------------------------------------------ bounds

\* Largest number of gathered positions (npoint) per batch element.
MaxM == 2
\* Number of source points N of the gathered feature tensor.
MaxN == 2

\* Largest number of points N of a point cloud drawn from the lattice.
MaxPts == 3
\* Largest x coordinate of the lattice the point clouds are drawn from.
MaxCoord == 1

\* Largest number of reference points N of the clouds the KNN search is
\* run on with every choice of coordinates.
MaxRef == 3
\* Largest number of query points M run against those clouds.
MaxRefQueries == 2
\* Largest N and M of the calls of group_knn and KNN.forward made with
\* every combination of shape, layout and flags.
MaxShapeN == 4
MaxShapeM == 4

\* Batch elements and channels of the gathered tensors: two of each tell
\* batch-local addressing from cross-batch or cross-channel addressing.
GatherBatch == Range(2)
GatherChannel == Range(2)

\* ------------------------------------------------------------ GatherFunction

\* features[b][c][n]: every entry is different, so a gathered value names
\* the entry it came from.
FeatureTensor(N) ==
    [b \in GatherBatch |-> [c \in GatherChannel |-> [n \in Range(N) |-> 100 * b + 10 * c + n + 1]]]

\* Index tensors of shape (B, M) with entries in [0, N), repeats allowed.
IndexTensors(N, M) == [GatherBatch -> [Range(M) -> Range(N)]]

\* Upstream gradients of shape (B, C, M): all ones (the histogram case),
\* one with a different power of two per position (a sum then names the set
\* of positions that contributed), and one with mixed signs.
GradOnes(M) == [b \in GatherBatch |-> [c \in GatherChannel |-> [j \in Range(M) |-> 1]]]
GradWeights(M) ==
    [b \in GatherBatch |-> [c \in GatherChannel |-> [j \in Range(M) |-> (2 ^ j) * (3 * b + c + 1)]]]
GradSigned(M) ==
    [b \in GatherBatch |-> [c \in GatherChannel |-> [j \in Range(M) |-> IF j % 2 = 0 THEN -(j + b + 1) ELSE c + 1]]]
GradOuts(M) == {GradOnes(M), GradWeights(M), GradSigned(M)}

\* sampling.gather_forward: output[b, c, j] = features[b, c, idx[b, j]]
gather_forward(B, C, N, M, feat, ind) ==
    [b \in Range(B) |-> [c \in Range(C) |-> [j \in Range(M) |-> feat[b][c][ind[b][j]]]]]

\* A buffer torch.empty would hand out: whatever the allocator held.
GradFeaturesUninit(B, C, N) ==
    [b \in Range(B) |-> [c \in Range(C) |-> [n \in Range(N) |-> 7]]]

\* torch.zeros(B, ctx.C, ctx.N)
GradFeaturesInit(B, C, N) ==
    [b \in Range(B) |-> [c \in Range(C) |-> [n \in Range(N) |-> 0]]]

\* One worker of sampling.gather_backward: an atomic add of grad_out[b, :, j]
\* into grad_features[b, :, idx[b, j]].
AtomicAdd(gf, go, ind, b, j) ==
    [gf EXCEPT ![b] = [c \in DOMAIN gf[b] |->
        [gf[b][c] EXCEPT ![ind[b][j]] = @ + go[b][c][j]]]]

NoCtx == [saved |-> <<>>, C |-> 0, N |-> 0]

InitGather ==
    /\ \E N \in 1 .. MaxN, M \in 1 .. MaxM :
          /\ features = FeatureTensor(N)
          /\ idx \in IndexTensors(N, M)
          /\ grad_out \in GradOuts(M)
    /\ output = <<>>
    /\ ctx = NoCtx
    /\ grad_features = <<>>
    /\ pending = {}
    /\ gpc = "start"

IdleGather ==
    /\ features = <<>> /\ idx = <<>> /\ grad_out = <<>> /\ output = <<>>
    /\ ctx = NoCtx /\ grad_features = <<>> /\ pending = {} /\ gpc = "idle"

\* GatherFunction.forward
GatherForward ==
    /\ gpc = "start"
    /\ LET B == Cardinality(DOMAIN idx)
           M == Cardinality(DOMAIN idx[0])
           C == Cardinality(DOMAIN features[0])
           N == Cardinality(DOMAIN features[0][0])
       IN /\ output' = gather_forward(B, C, N, M, features, idx)
          /\ ctx' = [saved |-> idx, C |-> C, N |-> N]
    /\ gpc' = "forwarded"
    /\ UNCHANGED <<features, idx, grad_out, grad_features, pending>>
    /\ UNCHANGED <<fvars, kvars>>

\* GatherFunction.backward up to the launch of sampling.gather_backward
BackwardLaunch ==
    /\ gpc = "forwarded"
    /\ LET B == Cardinality(DOMAIN ctx.saved)
           M == Cardinality(DOMAIN ctx.saved[0])
       IN /\ grad_features' = GradFeaturesInit(B, ctx.C, ctx.N)
          /\ pending' = Range(B) \X Range(M)
    /\ gpc' = "accumulating"
    /\ UNCHANGED <<features, idx, grad_out, output, ctx>>
    /\ UNCHANGED <<fvars, kvars>>

\* One worker of the kernel accumulates its output position.
BackwardWorker ==
    /\ gpc = "accumulating"
    /\ \E w \in pending :
          /\ grad_features' = AtomicAdd(grad_features, grad_out, ctx.saved, w[1], w[2])
          /\ pending' = pending \ {w}
    /\ UNCHANGED <<features, idx, grad_out, output, ctx, gpc>>
    /\ UNCHANGED <<fvars, kvars>>

\* GatherFunction.backward returns once every worker has finished.
BackwardReturn ==
    /\ gpc = "accumulating"
    /\ pending = {}
    /\ gpc' = "returned"
    /\ UNCHANGED <<features, idx, grad_out, output, ctx, grad_features, pending>>
    /\ UNCHANGED <<fvars, kvars>>

NextGather ==
    \/ GatherForward
    \/ BackwardLaunch
    \/ BackwardWorker
    \/ BackwardReturn


\* ---------------------------------------------------- furthest point sampling

Min(a, b) == IF a <= b THEN a ELSE b

\* Point clouds are sequences of N lattice points, stored (N, 3).
Lattice == {[d \in Range(3) |-> IF d = 0 THEN x ELSE IF d = 1 THEN 0 ELSE z] :
               x \in 0 .. MaxCoord, z \in 0 .. 1}
CloudsOf(N) == [Range(N) -> Lattice]

\* Five collinear points at x = 0, 1, 2, 3, 4, padded to 3-D with zeros.
Line5 == [n \in Range(5) |-> [d \in Range(3) |-> IF d = 0 THEN n ELSE 0]]

Clouds == (UNION {CloudsOf(N) : N \in 1 .. MaxPts}) \cup {Line5}

NumPoints(cloud) == Cardinality(DOMAIN cloud)

Reversed(cloud) == [n \in DOMAIN cloud |-> cloud[NumPoints(cloud) - 1 - n]]

\* Batches (B, N, 3) of one cloud, or of a cloud and its reversal.
BatchesOf(cloud) == {[b \in Range(1) |-> cloud],
                     [b \in Range(2) |-> IF b = 0 THEN cloud ELSE Reversed(cloud)]}

\* tensor.size(1), tensor.size(2) of a 3-axis tensor
Size1(t) == Cardinality(DOMAIN t[0])
Size2(t) == Cardinality(DOMAIN t[0][0])

\* tensor.transpose(2, 1).contiguous()
Transpose21(t) ==
    [b \in DOMAIN t |-> [i \in Range(Size2(t)) |-> [j \in Range(Size1(t)) |-> t[b][j][i]]]]

\* Squared Euclidean distance of two 3-D points.
Dist2(p, q) ==
    (p[0] - q[0]) * (p[0] - q[0]) + (p[1] - q[1]) * (p[1] - q[1]) + (p[2] - q[2]) * (p[2] - q[2])

\* The fill value of temp: 1e10 in the source. Model integers are 32 bits
\* wide, so the model takes the largest power of ten they hold; like 1e10
\* it exceeds every squared distance between two points of a cloud.
FillValue == 1000000000

\* torch.zeros in place of torch.full(..., 1e10)
TempZeros(B, N, m) == [b \in Range(B) |-> [p \in Range(N) |-> 0]]

\* torch.full([B, npoint], 1e10): npoint in place of N; the kernel then
\* reads past the buffer for p >= npoint, here as zeros.
TempShort(B, N, m) ==
    [b \in Range(B) |-> [p \in Range(N) |-> IF p < m THEN FillValue ELSE 0]]

\* temp = torch.full([B, N], 1e10)
TempInit(B, N, m) == [b \in Range(B) |-> [p \in Range(N) |-> FillValue]]

\* The points the next sample is chosen among, were selected points left in.
CandidatesAll(N, chosen) == Range(N)

\* The points the next sample is chosen among: the unselected ones.
Candidates(N, chosen) == Range(N) \ chosen

MaxOf(S) == CHOOSE v \in S : \A w \in S : w <= v
MinOf(S) == CHOOSE v \in S : \A w \in S : v <= w

\* The greedy loop of sampling.furthest_sampling on one batch element: sel
\* is the selection so far (a sequence), temp the running minimum distances.
RECURSIVE FpsLoop(_, _, _, _, _)
FpsLoop(pts, N, m, temp, sel) ==
    IF Len(sel) >= m
    THEN sel
    ELSE LET old == sel[Len(sel)]
             chosen == {sel[i] : i \in 1 .. Len(sel)}
             cand == Candidates(N, chosen)
             t2 == [p \in Range(N) |->
                       IF p \in chosen THEN temp[p]
                       ELSE Min(temp[p], Dist2(pts[p], pts[old]))]
             best == MaxOf({t2[p] : p \in cand})
             besti == IF cand = {} THEN 0
                      ELSE MinOf({p \in cand : t2[p] = best})
         IN FpsLoop(pts, N, m, t2, Append(sel, besti))

\* sampling.furthest_sampling(B, N, npoint, xyz, temp, idx): idx (B, npoint)
furthest_sampling(B, N, m, pts, temp) ==
    [b \in Range(B) |->
        LET sel == FpsLoop(pts[b], N, m, temp[b], <<0>>)
        IN [j \in Range(m) |-> sel[j + 1]]]

\* FurthestPointSampling.forward(xyz, npoint), xyz of shape (B, N, 3)
FurthestPointSampling(pts, m) ==
    LET B == Cardinality(DOMAIN pts)
        N == Size1(pts)
    IN furthest_sampling(B, N, m, pts, TempInit(B, N, m))

\* gather_points(features, idx) = GatherFunction.forward
gather_points(feat, ind) ==
    gather_forward(Cardinality(DOMAIN ind), Size1(feat), Size2(feat),
                   Cardinality(DOMAIN ind[0]), feat, ind)

\* furthest_point_sample(xyz, npoint, NCHW): the record of what the call
\* gives back, or of the assertion it dies on.
furthest_point_sample(t, m, flag) ==
    LET pts == IF flag THEN Transpose21(t) ELSE t
    IN IF Size2(pts) # 3
       THEN [ok |-> FALSE, idx |-> <<>>, pc |-> <<>>]
       ELSE LET ind == FurthestPointSampling(pts, m)
                pc == gather_points(Transpose21(pts), ind)
            IN [ok |-> TRUE, idx |-> ind,
                pc |-> IF flag THEN pc ELSE Transpose21(pc)]

InitSampling ==
    /\ \E cloud \in Clouds :
          /\ \E batch \in BatchesOf(cloud), given \in BOOLEAN :
                \* the caller passes (B, 3, N) or (B, N, 3), and says which
                \* with NCHW, rightly or not
                xyz = IF given THEN Transpose21(batch) ELSE batch
          /\ npoint \in 1 .. NumPoints(cloud)
    /\ NCHW \in BOOLEAN
    /\ fps_idx = <<>>
    /\ sampled_pc = <<>>
    /\ npoint2 = 0
    /\ fps_idx2 = <<>>
    /\ fpc = "start"

IdleSampling ==
    /\ xyz = <<>> /\ NCHW = TRUE /\ npoint = 0 /\ fps_idx = <<>>
    /\ sampled_pc = <<>> /\ npoint2 = 0 /\ fps_idx2 = <<>> /\ fpc = "idle"

\* A call of furthest_point_sample that returns.
Sample ==
    /\ fpc = "start"
    /\ LET r == furthest_point_sample(xyz, npoint, NCHW)
       IN /\ r.ok
          /\ fps_idx' = r.idx
          /\ sampled_pc' = r.pc
    /\ fpc' = "sampled"
    /\ UNCHANGED <<xyz, NCHW, npoint, npoint2, fps_idx2>>
    /\ UNCHANGED <<gvars, kvars>>

\* A call of furthest_point_sample that fails the assertion on size(2).
SampleRejected ==
    /\ fpc = "start"
    /\ ~furthest_point_sample(xyz, npoint, NCHW).ok
    /\ fpc' = "AssertionError"
    /\ UNCHANGED <<xyz, NCHW, npoint, fps_idx, sampled_pc, npoint2, fps_idx2>>
    /\ UNCHANGED <<gvars, kvars>>

\* A second call on the same xyz with a target j <= npoint.
SampleAgain ==
    /\ fpc = "sampled"
    /\ \E j \in 1 .. npoint :
          /\ npoint2' = j
          /\ fps_idx2' = furthest_point_sample(xyz, j, NCHW).idx
    /\ fpc' = "resampled"
    /\ UNCHANGED <<xyz, NCHW, npoint, fps_idx, sampled_pc>>
    /\ UNCHANGED <<gvars, kvars>>

NextSampling ==
    \/ Sample
    \/ SampleRejected
    \/ SampleAgain

\* ------------------------------------------------------------------ group_knn

Pt(x, y, z) == [d \in Range(3) |-> IF d = 0 THEN x ELSE IF d = 1 THEN y ELSE z]

\* Reference clouds with every choice of coordinates: the corners of a
\* square of side 2 (a unit square at twice the scale, so that its centroid
\* has integer coordinates).
RefLattice == {Pt(0, 0, 0), Pt(2, 0, 0), Pt(2, 2, 0), Pt(0, 2, 0)}
Square == [n \in Range(4) |->
             IF n = 0 THEN Pt(0, 0, 0) ELSE IF n = 1 THEN Pt(2, 0, 0)
             ELSE IF n = 2 THEN Pt(2, 2, 0) ELSE Pt(0, 2, 0)]
RefClouds == (UNION {[Range(N) -> RefLattice] : N \in 1 .. MaxRef}) \cup {Square}

\* Query points: the centroid of the square, a corner, a point outside.
QueryLattice == {Pt(1, 1, 0), Pt(0, 0, 0), Pt(3, 1, 0)}
QueryClouds == UNION {[Range(M) -> QueryLattice] : M \in 1 .. MaxRefQueries}

\* Batches of B clouds of N points for the calls that vary shape and flags:
\* the batch elements hold different points in a different order.
ShapePoints(B, N) ==
    [b \in Range(B) |-> [n \in Range(N) |->
        IF b = 0 THEN Pt(2 * n, 0, n % 2) ELSE Pt(2 * (N - 1 - n), 1, n % 2)]]

\* Batches of B sets of M query points with C coordinates each.
ShapeQueries(B, M, C) ==
    [b \in Range(B) |-> [m \in Range(M) |-> [d \in Range(C) |-> Pt(2 * m + 1, b, 0)[d]]]]

\* The dimension of the Faiss index: database.size(-1)
SizeLast(t2) == Cardinality(DOMAIN t2[0])

\* tensor[i].storage().data_ptr(): the address of the first element of the
\* storage the slice is a view of, not of the slice; read from there, the
\* rows of tensor[i] are the rows of tensor[0].
StorageRows(t, i) == t[0]

\* What Faiss reports for a neighbour that does not exist (k > ntotal).
MissingLabel == -1
MissingDistance == 2147483647

NoIndex == [state |-> "none", d |-> 0, xb |-> <<>>]

\* index.search_c on one query row q against the stored vectors xb: the kk
\* nearest by squared L2 distance, nearest first; the order among vectors
\* at the same distance, and which of them make the cut, is not fixed by a
\* flat GPU index. Slots beyond ntotal hold the missing label.
SearchRow(xb, q, kk) ==
    LET N == NumPoints(xb)
        found == Min(kk, N)
        picks == {s \in [Range(found) -> Range(N)] :
                    /\ \A a, b \in Range(found) : a # b => s[a] # s[b]
                    /\ \A a \in Range(found - 1) :
                          Dist2(q, xb[s[a]]) <= Dist2(q, xb[s[a + 1]])
                    /\ \A p \in Range(N) :
                          (\A a \in Range(found) : s[a] # p)
                             => Dist2(q, xb[s[found - 1]]) <= Dist2(q, xb[p])}
    IN {[I |-> [j \in Range(kk) |-> IF j < found THEN s[j] ELSE MissingLabel],
         D |-> [j \in Range(kk) |->
                  IF j < found THEN Dist2(q, xb[s[j]]) ELSE MissingDistance]] :
          s \in picks}

\* index.search_c on the first n rows of x: one result per row.
RECURSIVE SearchRows(_, _, _, _)
SearchRows(xb, x, kk, n) ==
    IF n = 0
    THEN {<<>>}
    ELSE {Append(pre, r) : pre \in SearchRows(xb, x, kk, n - 1),
                           r \in SearchRow(xb, x[n - 1], kk)}

\* torch.stack(list, dim=0)
Stack(list) == [b \in Range(Len(list)) |-> list[b + 1]]

\* torch.gather(points_expanded, 2, index_batch_expanded) accepts an index
\* no larger than its input in the dimensions other than 2, with entries
\* inside dimension 2; points_expanded is (B, expand, N, C).
GatherAccepts(pts, ind, expand) ==
    /\ Size1(ind) <= expand
    /\ \A b \in DOMAIN ind : \A m \in DOMAIN ind[b] : \A j \in DOMAIN ind[b][m] :
          ind[b][m][j] \in DOMAIN pts[b]

\* neighbor_points of shape (B, M, k, C)
Gathered(pts, ind) ==
    [b \in DOMAIN ind |-> [m \in DOMAIN ind[b] |-> [j \in DOMAIN ind[b][m] |->
        [c \in DOMAIN pts[b][0] |-> pts[b][ind[b][m][j]][c]]]]]

\* neighbor_points.permute(0, 3, 1, 2).contiguous(): (B, C, M, k)
Permute0312(t) ==
    [b \in DOMAIN t |-> [c \in DOMAIN t[b][0][0] |-> [m \in DOMAIN t[b] |->
        [j \in DOMAIN t[b][m] |-> t[b][m][j][c]]]]]

KnnStart ==
    /\ unique \in BOOLEAN
    /\ query_trans = <<>> /\ points_trans = <<>> /\ bi = 0 /\ index = NoIndex
    /\ D_var = <<>> /\ I_var = <<>> /\ distance_list = <<>> /\ index_list = <<>>
    /\ distance_batch = <<>> /\ index_batch = <<>> /\ neighbor_points = <<>>
    /\ raised = "" /\ kpc = "start"

InitKnn ==
    /\ \/ \* KNN.forward on one cloud, every choice of coordinates
          /\ entry = "KNN" /\ nchw = FALSE /\ contiguous = TRUE
          /\ \E ref \in RefClouds, q \in QueryClouds :
                /\ points = [b \in Range(1) |-> ref]
                /\ query = [b \in Range(1) |-> q]
                /\ k \in 1 .. (NumPoints(ref) + 1)
       \/ \* group_knn and KNN.forward, every shape, layout and flag
          /\ entry \in {"group_knn", "KNN"}
          /\ nchw \in BOOLEAN
          /\ contiguous \in BOOLEAN
          /\ entry = "group_knn" => contiguous
          /\ entry = "KNN" => ~nchw
          /\ \E B \in 1 .. 2, N \in 1 .. MaxShapeN, M \in 1 .. MaxShapeM, C \in 2 .. 3 :
                /\ points = IF nchw THEN Transpose21(ShapePoints(B, N))
                                    ELSE ShapePoints(B, N)
                /\ query = IF nchw THEN Transpose21(ShapeQueries(B, M, C))
                                   ELSE ShapeQueries(B, M, C)
                /\ k \in 1 .. (N + 1)
    /\ KnnStart

IdleKnn ==
    /\ entry = "" /\ k = 0 /\ query = <<>> /\ points = <<>> /\ unique = TRUE
    /\ nchw = TRUE /\ contiguous = TRUE
    /\ query_trans = <<>> /\ points_trans = <<>> /\ bi = 0 /\ index = NoIndex
    /\ D_var = <<>> /\ I_var = <<>> /\ distance_list = <<>> /\ index_list = <<>>
    /\ distance_batch = <<>> /\ index_batch = <<>> /\ neighbor_points = <<>>
    /\ raised = "" /\ kpc = "idle"

\* The transposes group_knn makes before its assertion.
GroupTrans(t) == IF nchw THEN Transpose21(t) ELSE t

\* group_knn's assertion: num_points >= query.size(1)
GroupAssertion == Size1(GroupTrans(points)) >= Size1(query)

\* group_knn up to the call of KNN.apply
GroupKnnEnter ==
    /\ kpc = "start" /\ entry = "group_knn"
    /\ GroupAssertion
    /\ points_trans' = GroupTrans(points)
    /\ query_trans' = GroupTrans(query)
    /\ kpc' = "forward"
    /\ UNCHANGED <<entry, k, query, points, unique, nchw, contiguous, bi, index,
                   D_var, I_var, distance_list, index_list, distance_batch,
                   index_batch, neighbor_points, raised>>
    /\ UNCHANGED <<gvars, fvars>>

\* group_knn dies on its assertion.
GroupKnnAssertFails ==
    /\ kpc = "start" /\ entry = "group_knn"
    /\ ~GroupAssertion
    /\ points_trans' = GroupTrans(points)
    /\ query_trans' = GroupTrans(query)
    /\ raised' = "AssertionError"
    /\ kpc' = "failed"
    /\ UNCHANGED <<entry, k, query, points, unique, nchw, contiguous, bi, index,
                   D_var, I_var, distance_list, index_list, distance_batch,
                   index_batch, neighbor_points>>
    /\ UNCHANGED <<gvars, fvars>>

\* The caller calls KNN.forward(k, query, points) itself.
KnnEnter ==
    /\ kpc = "start" /\ entry = "KNN"
    /\ points_trans' = points
    /\ query_trans' = query
    /\ kpc' = "forward"
    /\ UNCHANGED <<entry, k, query, points, unique, nchw, contiguous, bi, index,
                   D_var, I_var, distance_list, index_list, distance_batch,
                   index_batch, neighbor_points, raised>>
    /\ UNCHANGED <<gvars, fvars>>

\* KNN.forward enters search_index_pytorch(points[i], query[i], k), which
\* constructs its index: faiss.GpuIndexFlatL2(GPU_RES, database.size(-1))
IndexConstruct ==
    /\ kpc = "forward"
    /\ bi < Cardinality(DOMAIN points_trans)
    /\ index' = [state |-> "empty", d |-> SizeLast(points_trans[bi]), xb |-> <<>>]
    /\ kpc' = "add"
    /\ UNCHANGED <<entry, k, query, points, unique, nchw, contiguous, query_trans,
                   points_trans, bi, D_var, I_var, distance_list, index_list,
                   distance_batch, index_batch, neighbor_points, raised>>
    /\ UNCHANGED <<gvars, fvars>>

\* index.add_c(database.size(0), database.storage().data_ptr())
IndexAdd ==
    /\ kpc = "add"
    /\ index' = [index EXCEPT !.state = "populated",
                              !.xb = StorageRows(points_trans, bi)]
    /\ kpc' = "check"
    /\ UNCHANGED <<entry, k, query, points, unique, nchw, contiguous, query_trans,
                   points_trans, bi, D_var, I_var, distance_list, index_list,
                   distance_batch, index_batch, neighbor_points, raised>>
    /\ UNCHANGED <<gvars, fvars>>

\* assert x.is_contiguous(); n, d = x.size(); assert d == index.d
QueryAccepted ==
    /\ contiguous
    /\ SizeLast(query_trans[bi]) = index.d

\* The assertions hold; D and I are allocated (KNN.forward passes none).
CheckPasses ==
    /\ kpc = "check"
    /\ QueryAccepted
    /\ kpc' = "search"
    /\ UNCHANGED <<entry, k, query, points, unique, nchw, contiguous, query_trans,
                   points_trans, bi, index, D_var, I_var, distance_list, index_list,
                   distance_batch, index_batch, neighbor_points, raised>>
    /\ UNCHANGED <<gvars, fvars>>

\* An assertion fails and the exception leaves search_index_pytorch,
\* KNN.forward and group_knn.
CheckFails ==
    /\ kpc = "check"
    /\ ~QueryAccepted
    /\ raised' = "AssertionError"
    /\ kpc' = "failed"
    /\ UNCHANGED <<entry, k, query, points, unique, nchw, contiguous, query_trans,
                   points_trans, bi, index, D_var, I_var, distance_list, index_list,
                   distance_batch, index_batch, neighbor_points>>
    /\ UNCHANGED <<gvars, fvars>>

\* index.search_c(n, x.storage().data_ptr(), k, D, I)
Search ==
    /\ kpc = "search"
    /\ LET x == StorageRows(query_trans, bi)
           n == NumPoints(query_trans[bi])
       IN \E rows \in SearchRows(index.xb, x, k, n) :
             /\ D_var' = [m \in Range(n) |-> rows[m + 1].D]
             /\ I_var' = [m \in Range(n) |-> rows[m + 1].I]
    /\ kpc' = "reset"
    /\ UNCHANGED <<entry, k, query, points, unique, nchw, contiguous, query_trans,
                   points_trans, bi, index, distance_list, index_list,
                   distance_batch, index_batch, neighbor_points, raised>>
    /\ UNCHANGED <<gvars, fvars>>

\* index.reset(); return D, I; KNN.forward appends them and goes on.
ResetReturn ==
    /\ kpc = "reset"
    /\ index' = [index EXCEPT !.state = "reset", !.xb = <<>>]
    /\ index_list' = Append(index_list, I_var)
    /\ distance_list' = Append(distance_list, D_var)
    /\ bi' = bi + 1
    /\ kpc' = "forward"
    /\ UNCHANGED <<entry, k, query, points, unique, nchw, contiguous, query_trans,
                   points_trans, D_var, I_var, distance_batch, index_batch,
                   neighbor_points, raised>>
    /\ UNCHANGED <<gvars, fvars>>

\* KNN.forward stacks its lists and returns.
KnnReturn ==
    /\ kpc = "forward"
    /\ bi = Cardinality(DOMAIN points_trans)
    /\ index_batch' = Stack(index_list)
    /\ distance_batch' = Stack(distance_list)
    /\ kpc' = IF entry = "KNN" THEN "returned" ELSE "gather"
    /\ UNCHANGED <<entry, k, query, points, unique, nchw, contiguous, query_trans,
                   points_trans, bi, index, D_var, I_var, distance_list, index_list,
                   neighbor_points, raised>>
    /\ UNCHANGED <<gvars, fvars>>

\* group_knn expands points_trans to (B, query.size(2), N, C), gathers the
\* neighbours, permutes them under NCHW and returns.
GroupKnnGather ==
    /\ kpc = "gather"
    /\ GatherAccepts(points_trans, index_batch, Size2(query))
    /\ neighbor_points' = IF nchw THEN Permute0312(Gathered(points_trans, index_batch))
                                  ELSE Gathered(points_trans, index_batch)
    /\ kpc' = "returned"
    /\ UNCHANGED <<entry, k, query, points, unique, nchw, contiguous, query_trans,
                   points_trans, bi, index, D_var, I_var, distance_list, index_list,
                   distance_batch, index_batch, raised>>
    /\ UNCHANGED <<gvars, fvars>>

\* torch.gather refuses the index tensor.
GroupKnnGatherFails ==
    /\ kpc = "gather"
    /\ ~GatherAccepts(points_trans, index_batch, Size2(query))
    /\ raised' = "RuntimeError"
    /\ kpc' = "failed"
    /\ UNCHANGED <<entry, k, query, points, unique, nchw, contiguous, query_trans,
                   points_trans, bi, index, D_var, I_var, distance_list, index_list,
                   distance_batch, index_batch, neighbor_points>>
    /\ UNCHANGED <<gvars, fvars>>

NextKnn ==
    \/ GroupKnnEnter
    \/ GroupKnnAssertFails
    \/ KnnEnter
    \/ IndexConstruct
    \/ IndexAdd
    \/ CheckPasses
    \/ CheckFails
    \/ Search
    \/ ResetReturn
    \/ KnnReturn
    \/ GroupKnnGather
    \/ GroupKnnGatherFails

\* ------------------------------------------------------------ specifications

InitG == InitGather /\ IdleSampling /\ IdleKnn

SpecGather == InitG /\ [][NextGather]_vars

InitF == InitSampling /\ IdleGather /\ IdleKnn

SpecSampling == InitF /\ [][NextSampling]_vars

InitK == InitKnn /\ IdleGather /\ IdleSampling

SpecKnn == InitK /\ [][NextKnn]_vars

\* -------------------------------------------------------------------- claims

\* The scatter-add sum the gradient of gather is defined by: the sum of
\* go[b][c][j] over the positions j of J with ind[b][j] = n.
RECURSIVE SumOver(_, _, _, _, _, _)
SumOver(go, ind, b, c, n, J) ==
    IF J = {} THEN 0
    ELSE LET j == CHOOSE x \in J : TRUE
         IN (IF ind[b][j] = n THEN go[b][c][j] ELSE 0)
            + SumOver(go, ind, b, c, n, J \ {j})

\* C1: GatherFunction.backward returns grad_features of shape (B, C, N) with
\* grad_features[b,c,n] = the sum of grad_out[b,c,j] over all j with
\* idx[b,j] = n (zero when there is none), whatever order the workers ran
\* in; with grad_out all ones it is the number of such j.
C1_ScatterAddIsSum ==
    gpc = "returned" =>
        /\ DOMAIN grad_features = DOMAIN idx
        /\ \A b \in DOMAIN idx :
              /\ DOMAIN grad_features[b] = DOMAIN features[b]
              /\ \A c \in DOMAIN features[b] :
                    /\ DOMAIN grad_features[b][c] = DOMAIN features[b][c]
                    /\ \A n \in DOMAIN features[b][c] :
                          /\ grad_features[b][c][n]
                                = SumOver(grad_out, idx, b, c, n, DOMAIN idx[b])
                          /\ grad_out = GradOnes(Cardinality(DOMAIN idx[b]))
                                => grad_features[b][c][n]
                                      = Cardinality({j \in DOMAIN idx[b] : idx[b][j] = n})

\* C1 happens: a returned backward pass where two output positions of one
\* batch element named the same source index and another index was named
\* by none.
C1_Witness ==
    /\ gpc = "returned"
    /\ \E b \in DOMAIN idx :
          /\ \E j1, j2 \in DOMAIN idx[b] : j1 # j2 /\ idx[b][j1] = idx[b][j2]
          /\ \E n \in DOMAIN features[b][0] : \A j \in DOMAIN idx[b] : idx[b][j] # n

\* The sampled batch in the (B, N, 3) layout the sampler works on.
SampledPoints == IF NCHW THEN Transpose21(xyz) ELSE xyz

\* The distance of point p to the nearest of the points S, computed from
\* the coordinates.
NearestDist2(pts, S, p) == MinOf({Dist2(pts[p], pts[s]) : s \in S})

\* idx is the greedy sequence on pts: it starts at 0, and each later entry
\* is, among the points not yet selected, the one farthest from the
\* selected ones, the smallest index among equally far ones.
IsGreedy(pts, ind) ==
    /\ ind[0] = 0
    /\ \A j \in DOMAIN ind \ {0} :
          LET S == {ind[i] : i \in Range(j)}
              rest == DOMAIN pts \ S
          IN /\ ind[j] \in rest
             /\ \A p \in rest :
                   \/ NearestDist2(pts, S, p) < NearestDist2(pts, S, ind[j])
                   \/ /\ NearestDist2(pts, S, p) = NearestDist2(pts, S, ind[j])
                      /\ ind[j] <= p

\* C2: for every batch element and every m <= N the sampler returns the
\* greedy sequence (first index 0; each later index the not yet selected
\* point of maximal distance to the selected set, ties to the smallest
\* index); on five collinear points 0..4 with m = 3 it returns [0, 4, 2].
C2_GreedySequence ==
    fpc \in {"sampled", "resampled"} =>
        \A b \in DOMAIN fps_idx :
            /\ DOMAIN fps_idx[b] = Range(npoint)
            /\ IsGreedy(SampledPoints[b], fps_idx[b])
            /\ (SampledPoints[b] = Line5 /\ npoint = 3)
                  => fps_idx[b] = [j \in Range(3) |-> IF j = 0 THEN 0 ELSE IF j = 1 THEN 4 ELSE 2]

\* C2 happens: the collinear scenario was sampled with m = 3.
C2_Witness ==
    /\ fpc = "sampled"
    /\ npoint = 3
    /\ \E b \in DOMAIN fps_idx :
          /\ SampledPoints[b] = Line5
          /\ fps_idx[b][1] = 4
          /\ fps_idx[b][2] = 2

C6_PrefixProperty ==
    fpc = "resampled" =>
        \A b \in DOMAIN fps_idx :
            /\ DOMAIN fps_idx2[b] = Range(npoint2)
            /\ \A i \in Range(npoint2) : fps_idx2[b][i] = fps_idx[b][i]

\* C6 happens: a second sampling asked for fewer points than the first,
\* and for more than the seed.
C6_Witness ==
    /\ fpc = "resampled"
    /\ 1 < npoint2
    /\ npoint2 < npoint

\* The caller's tensors in the (B, N, C) and (B, M, C) layout.
CanonPoints == IF entry = "group_knn" THEN GroupTrans(points) ELSE points
CanonQuery == IF entry = "group_knn" THEN GroupTrans(query) ELSE query
RefCount == Size1(CanonPoints)
QueryCount == Size1(CanonQuery)

\* Reference point p of cloud pts comes before reference point r in the
\* order (squared distance to q, original index).
LexBefore(pts, q, p, r) ==
    \/ Dist2(q, pts[p]) < Dist2(q, pts[r])
    \/ Dist2(q, pts[p]) = Dist2(q, pts[r]) /\ p < r

\* C3: for every batch element, query point and k <= N the search returns
\* exactly the k reference points smallest under (squared distance to the
\* query, original index), in that ascending order, with their distances;
\* among points at equal distance the lowest indices are returned (unit
\* square, query at the centroid, k = 2: indices 0 and 1).
C3_ExactNeighbours ==
    (kpc = "returned" /\ k <= RefCount) =>
        \A b \in DOMAIN index_batch : \A m \in DOMAIN index_batch[b] :
            \A j \in Range(k) :
                LET pts == CanonPoints[b]
                    q == CanonQuery[b][m]
                    r == index_batch[b][m][j]
                IN /\ r \in DOMAIN pts
                   /\ Cardinality({p \in DOMAIN pts : LexBefore(pts, q, p, r)}) = j
                   /\ distance_batch[b][m][j] = Dist2(q, pts[r])

\* Inputs the search accepts by its contract: k <= N, query and points of
\* the same dimensionality, a contiguous query.
ValidForSearch ==
    /\ k <= RefCount
    /\ Size2(CanonQuery) = Size2(CanonPoints)
    /\ contiguous

\* C4: for all valid inputs the call of KNN.forward / group_knn succeeds,
\* the distances of its output are non-decreasing along the k axis and
\* every index lies in [0, N); with k = N every row holds all N reference
\* points.
C4_SortedInRange ==
    ValidForSearch =>
        /\ kpc # "failed"
        /\ kpc = "returned" =>
              \A b \in DOMAIN index_batch : \A m \in DOMAIN index_batch[b] :
                  /\ \A j \in Range(k) : index_batch[b][m][j] \in Range(RefCount)
                  /\ \A j \in Range(k - 1) :
                        distance_batch[b][m][j] <= distance_batch[b][m][j + 1]
                  /\ k = RefCount =>
                        {index_batch[b][m][j] : j \in Range(k)} = Range(RefCount)

\* C7: a call with k > N fails with an InsufficientPointsError and returns
\* nothing; a call with k <= N is never turned down for its size, whatever
\* the number M of query points.
C7_InsufficientPoints ==
    /\ (kpc \in {"returned", "failed"} /\ k > RefCount) =>
          /\ raised = "InsufficientPointsError"
          /\ index_batch = <<>> /\ distance_batch = <<>> /\ neighbor_points = <<>>
    /\ (kpc = "failed" /\ ValidForSearch) => raised # "AssertionError"

\* C8: a failing call fails in validation before any computation: an index
\* is constructed or populated only in a call whose query passes the
\* checks (contiguity, dimensionality equal to the index dimension), and a
\* call either returns outputs for all B batch elements or fails having
\* searched nothing and returns nothing.
C8_ValidationFirst ==
    /\ index.state # "none" =>
          (contiguous /\ Size2(CanonQuery) = Size2(CanonPoints))
    /\ kpc = "failed" =>
          /\ index = NoIndex /\ index_list = <<>> /\ distance_list = <<>>
          /\ index_batch = <<>> /\ distance_batch = <<>> /\ neighbor_points = <<>>
    /\ kpc = "returned" =>
          /\ DOMAIN index_batch = DOMAIN CanonPoints
          /\ DOMAIN distance_batch = DOMAIN CanonPoints

\* C9: the Faiss index is scoped to the call: it is constructed in the
\* call, used for one search and reset on every exit path, the failing
\* ones included, so that once a call is over no index holds reference
\* points.
C9_IndexReleased ==
    kpc \in {"returned", "failed"} =>
        /\ index.state \in {"none", "reset"}
        /\ index.xb = <<>>

\* C10: for both layouts and any number M of query points group_knn returns
\* the neighbours its own index output addresses: with NCHW the shape is
\* (B, C, M, k) and neighbor_points[b,:,m,j] = points[b,:,index_batch[b,m,j]];
\* without, (B, M, k, C) and neighbor_points[b,m,j,:] =
\* points[b,index_batch[b,m,j],:]; index_batch and distance_batch are
\* (B, M, k); the unique flag changes nothing.
C10_GroupedByOwnIndex ==
    (entry = "group_knn" /\ ValidForSearch /\ kpc \in {"returned", "failed"}) =>
        /\ kpc = "returned"
        /\ DOMAIN index_batch = DOMAIN points
        /\ \A b \in DOMAIN points :
              /\ DOMAIN index_batch[b] = Range(QueryCount)
              /\ DOMAIN distance_batch[b] = Range(QueryCount)
              /\ \A m \in Range(QueryCount) :
                    /\ DOMAIN index_batch[b][m] = Range(k)
                    /\ DOMAIN distance_batch[b][m] = Range(k)
                    /\ \A j \in Range(k) : \A c \in Range(Size2(CanonPoints)) :
                          IF nchw
                          THEN neighbor_points[b][c][m][j]
                                  = points[b][c][index_batch[b][m][j]]
                          ELSE neighbor_points[b][m][j][c]
                                  = points[b][index_batch[b][m][j]][c]

====
